---- MODULE Spec2Model ----
(***************************************************************************)
(* State machine of CallDetectionModule (the Android native module of      *)
(* react-native-call-detection-android): the call-state tracker, the       *)
(* audio-focus tracker, the combined lifecycle operations, the OS side of  *)
(* the two registrations, the events emitted towards JavaScript, the       *)
(* listener methods of the JavaScript API (index.ts) and the two Expo      *)
(* config plugins (app.plugin.js, src/expo-plugin.ts).                     *)
(*                                                                         *)
(* Java objects created with `new` are identified by small integers; an    *)
(* identifier is reused once the OS no longer holds the object.  Event     *)
(* timestamps (System.currentTimeMillis) are left out of the events.       *)
(***************************************************************************)
EXTENDS Integers, Sequences, FiniteSets, TLC

\* ------------------------------------------------------------------ bounds
\* Number of listener objects the OS can hold at once (per service).
MaxObjects == 2
\* Length of the uses-permission list of an input manifest.
MaxPermissions == 2
\* Number of times one Expo config plugin is applied to a manifest.
MaxApplications == 2
\* Number of emitted events waiting to be delivered to JavaScript.
MaxInFlight == 1
\* Number of subscriptions the JavaScript side creates.
MaxSubscriptions == 2

\* ------------------------------------------------------- platform constants
VERSION_CODES_O == 26
VERSION_CODES_S == 31
CALL_STATE_IDLE == 0
CALL_STATE_RINGING == 1
CALL_STATE_OFFHOOK == 2
AUDIOFOCUS_GAIN == 1
AUDIOFOCUS_LOSS == -1
AUDIOFOCUS_LOSS_TRANSIENT == -2
AUDIOFOCUS_LOSS_TRANSIENT_CAN_DUCK == -3
GSM_EVENT_NAME == "PhoneCallStateUpdate"
AUDIO_FOCUS_EVENT_NAME == "AudioFocusUpdate"
\* The event names as the JavaScript API writes them.
JS_CALL_STATE_EVENT == "PhoneCallStateUpdate"
JS_AUDIO_FOCUS_EVENT == "AudioFocusUpdate"
EventNames ==
    {GSM_EVENT_NAME, AUDIO_FOCUS_EVENT_NAME, JS_CALL_STATE_EVENT,
     JS_AUDIO_FOCUS_EVENT}

\* A Java null reference held in a listener / callback / request field.
NoObject == 0
\* A Java null String handed over by the OS as the phone number.
NullString == "<null>"

ObjectIds == 1..MaxObjects
\* One API level of each behaviour class: below O, from O below S, from S.
SdkLevels == {VERSION_CODES_O - 1, VERSION_CODES_O, VERSION_CODES_S}
\* The OS call-state codes and one code the switch does not know.
CallStateCodes == {CALL_STATE_IDLE, CALL_STATE_RINGING, CALL_STATE_OFFHOOK, 3}
\* The OS focus-change codes and one code the switch does not know.
FocusChangeCodes ==
    {AUDIOFOCUS_GAIN, AUDIOFOCUS_LOSS, AUDIOFOCUS_LOSS_TRANSIENT,
     AUDIOFOCUS_LOSS_TRANSIENT_CAN_DUCK, 4}
OsPhoneNumbers == {"5551234", NullString}

VARIABLES
    sdkInt,                   \* Build.VERSION.SDK_INT of the device
    telephonyManager,         \* "null" or "TelephonyManager"
    phoneStateListener,       \* NoObject or an object id
    callStateCallback,        \* NoObject or an object id
    isGsmListening,
    currentGsmState,
    audioManager,             \* "null" or "AudioManager"
    audioFocusRequest,        \* NoObject or an object id
    audioFocusChangeListener, \* NoObject or an object id
    isAudioFocusListening,
    currentAudioFocusState,
    hasAudioFocus,
    telephonyRegs,            \* OS side: callback objects registered for call state
    focusRegs,                \* OS side: listeners with a live (granted or delayed) focus request
    focusDelayed,             \* OS side: those of focusRegs whose grant is still to come
    hasActiveReactInstance,   \* ReactApplicationContext.hasActiveReactInstance()
    emitted,                  \* events emitted to RCTDeviceEventEmitter, not yet delivered
    lastCall,                 \* the most recent bridge / lifecycle call and how it ended
    lastGsmNotification,      \* OS side: <<>> or <<the latest call-state change (state, phoneNumber)>>
    lastFocusChange,          \* OS side: <<>> or <<the latest focus-change code dispatched>>
    gsmHandler,               \* <<>> or <<the handleGsmCallStateChanged call in progress>>
    audioHandler,             \* <<>> or <<the handleAudioFocusChange call in progress>>
    twin,                     \* a second call tracker, built for the other registration strategy
    subscriptions,            \* JS: the event name of each subscription made, in order of creation
    listeners,                \* JS: the emitter's registry, event name -> subscriptions registered
    unsubscribed,             \* JS: subscriptions covered by a remove() or a removeAll-type call
    lastDelivery,             \* JS: <<>> or <<the latest event delivered and the subscriptions invoked>>
    manifestInput,            \* Expo: the app's AndroidManifest before any plugin ran
    packaged,                 \* Expo: that manifest under app.plugin.js, and the runs made
    typescript                \* Expo: that manifest under src/expo-plugin.ts, and the runs made

gsmVars ==
    <<telephonyManager, phoneStateListener, callStateCallback, isGsmListening,
      currentGsmState, telephonyRegs>>
audioVars ==
    <<audioManager, audioFocusRequest, audioFocusChangeListener,
      isAudioFocusListening, currentAudioFocusState, hasAudioFocus, focusRegs,
      focusDelayed>>
\* What the OS last told the module.
osVars == <<lastGsmNotification, lastFocusChange>>
\* Everything the bridge operations leave alone.
\* The OS callbacks that are between two of their statements.
handlerVars == <<gsmHandler, audioHandler>>
\* The JavaScript side of the module (index.ts).
jsVars == <<subscriptions, listeners, unsubscribed, lastDelivery>>
auxVars == <<osVars, handlerVars, jsVars>>
\* The build-time side: the manifest the Expo config plugins work on.
manifestVars == <<manifestInput, packaged, typescript>>
vars ==
    <<sdkInt, manifestVars, gsmVars, audioVars, hasActiveReactInstance,
      emitted, lastCall, auxVars, twin>>

\* ---- The Expo config plugins (app.plugin.js, src/expo-plugin.ts) ----

READ_PHONE_STATE == "android.permission.READ_PHONE_STATE"
READ_CALL_LOG == "android.permission.READ_CALL_LOG"
INTERNET == "android.permission.INTERNET"
PermissionNames == {READ_PHONE_STATE, READ_CALL_LOG, INTERNET}

\* A uses-permission entry { $: { 'android:name': name } }; attrs is FALSE
\* for an entry that has no $ member.
PermissionEntry(name) == [attrs |-> TRUE, name |-> name]
BareEntry == [attrs |-> FALSE, name |-> ""]
PermissionEntries == {PermissionEntry(n) : n \in PermissionNames} \cup {BareEntry}

RECURSIVE SeqsUpTo(_, _)
SeqsUpTo(S, n) ==
    IF n = 0 THEN {<<>>}
    ELSE LET shorter == SeqsUpTo(S, n - 1) IN
         shorter \cup {Append(q, x) : q \in shorter, x \in S}

\* manifest['uses-permission']: undefined (present FALSE) or an array.
NoUsesPermission == [present |-> FALSE, list |-> <<>>]
Manifests ==
    {NoUsesPermission}
        \cup {[present |-> TRUE, list |-> l] :
                 l \in SeqsUpTo(PermissionEntries, MaxPermissions)}

\* if (!androidManifest['uses-permission']) androidManifest[...] = [];
\* an empty array is truthy and stays as it is.
EnsureUsesPermission(m) ==
    IF m.present THEN m ELSE [present |-> TRUE, list |-> <<>>]

\* permissions.some(p => p.$?.['android:name'] === name)
HasPermission(list, name) ==
    \E i \in 1..Len(list) : list[i].attrs /\ list[i].name = name

\* if (!has) permissions.push({ $: { 'android:name': name } })
PushIfMissing(list, name) ==
    IF HasPermission(list, name) THEN list
    ELSE Append(list, PermissionEntry(name))

\* app.plugin.js: withCallDetection's manifest callback.
withCallDetection_Packaged(m) ==
    [EnsureUsesPermission(m) EXCEPT
        !.list = PushIfMissing(@, READ_PHONE_STATE)]

\* src/expo-plugin.ts: withCallDetection's manifest callback.
withCallDetection_TypeScript(m) ==
    [EnsureUsesPermission(m) EXCEPT
        !.list = PushIfMissing(PushIfMissing(@, READ_PHONE_STATE),
                               READ_CALL_LOG)]

PluginRun(run, after) ==
    [manifest |-> after, runs |-> run.runs + 1,
     first |-> IF run.runs = 0 THEN after ELSE run.first]

\* The module's fields and the OS registrations as one record.
Cur ==
    [telephonyManager |-> telephonyManager,
     phoneStateListener |-> phoneStateListener,
     callStateCallback |-> callStateCallback,
     isGsmListening |-> isGsmListening,
     currentGsmState |-> currentGsmState,
     audioManager |-> audioManager,
     audioFocusRequest |-> audioFocusRequest,
     audioFocusChangeListener |-> audioFocusChangeListener,
     isAudioFocusListening |-> isAudioFocusListening,
     currentAudioFocusState |-> currentAudioFocusState,
     hasAudioFocus |-> hasAudioFocus,
     telephonyRegs |-> telephonyRegs,
     focusRegs |-> focusRegs,
     focusDelayed |-> focusDelayed]

Install(s) ==
    /\ telephonyManager' = s.telephonyManager
    /\ phoneStateListener' = s.phoneStateListener
    /\ callStateCallback' = s.callStateCallback
    /\ isGsmListening' = s.isGsmListening
    /\ currentGsmState' = s.currentGsmState
    /\ audioManager' = s.audioManager
    /\ audioFocusRequest' = s.audioFocusRequest
    /\ audioFocusChangeListener' = s.audioFocusChangeListener
    /\ isAudioFocusListening' = s.isAudioFocusListening
    /\ currentAudioFocusState' = s.currentAudioFocusState
    /\ hasAudioFocus' = s.hasAudioFocus
    /\ telephonyRegs' = s.telephonyRegs
    /\ focusRegs' = s.focusRegs
    /\ focusDelayed' = s.focusDelayed

\* What the OS answers to the calls an operation makes:
\*   telSvc / audSvc : getSystemService returns the manager (TRUE) or null
\*   telReg          : registerTelephonyCallback / listen(LISTEN_CALL_STATE)
\*   telUnreg        : unregisterTelephonyCallback / listen(LISTEN_NONE)
\*   audReq          : requestAudioFocus
\*   audAbandon      : abandonAudioFocusRequest / abandonAudioFocus
\* Which OS calls an operation reached, and their answers ("na": not reached;
\* "already": the tracker was listening, so the start made no OS call).
NoTrace ==
    [telSvc |-> "na", telReg |-> "na", telUnreg |-> "na",
     audSvc |-> "na", audReq |-> "na", audAbandon |-> "na"]

\* A fresh object of `new`: the smallest id the OS holds no object of.
FreshId(held) == CHOOSE i \in ObjectIds \ held : \A j \in ObjectIds \ held : i <= j


\* ------------------------------------------------------------ the last call
\* lastCall records the most recent bridge or lifecycle call: its name, how its
\* promise was settled (settle, code, and for startAllListeners the two flags
\* of the result map), the OS answers it met (os), and the name and outcome of
\* the call before it.  promise lists the calls made on the Promise object,
\* in order; seq alternates so that two equal calls in a row are two steps.
MkCall(op, settle, code, promise, gsm, audio, t) ==
    [op |-> op, seq |-> 1 - lastCall.seq, settle |-> settle, code |-> code,
     promise |-> promise,
     gsmListening |-> gsm, audioFocusListening |-> audio, os |-> t,
     prevOp |-> lastCall.op, prevSettle |-> lastCall.settle]

Resolved(s, t) ==
    [s |-> s, settle |-> "resolve", code |-> "", promise |-> <<"resolve">>,
     t |-> t]
Rejected(s, code, t) ==
    [s |-> s, settle |-> "reject", code |-> code, promise |-> <<"reject">>,
     t |-> t]

ManagerOf(available, name) == IF available THEN name ELSE "null"
SvcTrace(available) == IF available THEN "ok" ELSE "null"

\* ============================ GSM CALL DETECTION ==========================

\* startGsmListenerLegacy: a new PhoneStateListener, then
\* telephonyManager.listen(listener, LISTEN_CALL_STATE).
startGsmListenerLegacy(s, id, telReg) ==
    LET s1 == [s EXCEPT !.phoneStateListener = id] IN
    CASE telReg = "ok" ->
           [s |-> [s1 EXCEPT !.telephonyRegs = @ \cup {id}], exc |-> "none"]
      [] telReg = "security" -> [s |-> s1, exc |-> "SecurityException"]
      [] OTHER -> [s |-> s1, exc |-> "Exception"]

\* startGsmListenerModern: a new CallStateCallback, then
\* telephonyManager.registerTelephonyCallback(executor, callback).
startGsmListenerModern(s, id, telReg) ==
    LET s1 == [s EXCEPT !.callStateCallback = id] IN
    CASE telReg = "ok" ->
           [s |-> [s1 EXCEPT !.telephonyRegs = @ \cup {id}], exc |-> "none"]
      [] telReg = "security" -> [s |-> s1, exc |-> "SecurityException"]
      [] OTHER -> [s |-> s1, exc |-> "Exception"]

\* The version branch of startListener and startAllListeners, on a device
\* of API level sdk.
StartGsmByVersionAt(sdk, s, id, telReg) ==
    IF sdk >= VERSION_CODES_S
    THEN startGsmListenerModern(s, id, telReg)
    ELSE startGsmListenerLegacy(s, id, telReg)

StartGsmByVersion(s, id, telReg) == StartGsmByVersionAt(sdkInt, s, id, telReg)

\* startListener without its `if (isGsmListening)` early return: a second
\* start registers a second callback.
StartListenerBody_NoGuard(s, telSvc, telReg) ==
    LET s1 == [s EXCEPT !.telephonyManager = ManagerOf(telSvc, "TelephonyManager")]
        t1 == [NoTrace EXCEPT !.telSvc = SvcTrace(telSvc)]
        r == StartGsmByVersion(s1, FreshId(s1.telephonyRegs), telReg)
        t2 == [t1 EXCEPT !.telReg = telReg]
    IN
    CASE s1.telephonyManager = "null" -> Rejected(s1, "TELEPHONY_ERROR", t1)
      [] r.exc = "none" -> Resolved([r.s EXCEPT !.isGsmListening = TRUE], t2)
      [] r.exc = "SecurityException" -> Rejected(r.s, "PERMISSION_ERROR", t2)
      [] OTHER -> Rejected(r.s, "START_ERROR", t2)

\* startListener with a single catch (Exception): a permission denial is
\* reported as START_ERROR.
StartListenerBody_OneCatch(s, telSvc, telReg) ==
    LET s1 == [s EXCEPT !.telephonyManager = ManagerOf(telSvc, "TelephonyManager")]
        t1 == [NoTrace EXCEPT !.telSvc = SvcTrace(telSvc)]
        r == StartGsmByVersion(s1, FreshId(s1.telephonyRegs), telReg)
        t2 == [t1 EXCEPT !.telReg = telReg]
    IN
    CASE s.isGsmListening -> Resolved(s, [NoTrace EXCEPT !.telSvc = "already"])
      [] s1.telephonyManager = "null" -> Rejected(s1, "TELEPHONY_ERROR", t1)
      [] r.exc = "none" -> Resolved([r.s EXCEPT !.isGsmListening = TRUE], t2)
      [] OTHER -> Rejected(r.s, "START_ERROR", t2)

\* startListener(promise), the body of its try block and its two catches,
\* on a device of API level sdk.
StartListenerBodyAt(sdk, s, telSvc, telReg) ==
    IF s.isGsmListening
    THEN Resolved(s, [NoTrace EXCEPT !.telSvc = "already"])
    ELSE
      LET s1 == [s EXCEPT !.telephonyManager = ManagerOf(telSvc, "TelephonyManager")]
          t1 == [NoTrace EXCEPT !.telSvc = SvcTrace(telSvc)]
      IN
      IF s1.telephonyManager = "null"
      THEN Rejected(s1, "TELEPHONY_ERROR", t1)
      ELSE
        LET r == StartGsmByVersionAt(sdk, s1, FreshId(s1.telephonyRegs), telReg)
            t2 == [t1 EXCEPT !.telReg = telReg]
        IN
        CASE r.exc = "none" ->
               Resolved([r.s EXCEPT !.isGsmListening = TRUE], t2)
          [] r.exc = "SecurityException" -> Rejected(r.s, "PERMISSION_ERROR", t2)
          [] OTHER -> Rejected(r.s, "START_ERROR", t2)

StartListenerBody(s, telSvc, telReg) ==
    StartListenerBodyAt(sdkInt, s, telSvc, telReg)

\* stopGsmListenerInternal on a device of API level sdk.  exc is the
\* exception that leaves the method.
stopGsmListenerInternalAt(sdk, s, telUnreg, t) ==
    IF sdk >= VERSION_CODES_S
    THEN
      IF s.telephonyManager # "null" /\ s.callStateCallback # NoObject
      THEN \* the unregister call is inside its own try/catch (Log.w)
        [s |-> [s EXCEPT
                  !.telephonyRegs =
                      IF telUnreg = "ok" THEN @ \ {s.callStateCallback} ELSE @,
                  !.callStateCallback = NoObject,
                  !.isGsmListening = FALSE],
         exc |-> "none", t |-> [t EXCEPT !.telUnreg = telUnreg]]
      ELSE [s |-> [s EXCEPT !.isGsmListening = FALSE], exc |-> "none", t |-> t]
    ELSE
      IF s.telephonyManager # "null" /\ s.phoneStateListener # NoObject
      THEN
        IF telUnreg = "ok"
        THEN [s |-> [s EXCEPT
                       !.telephonyRegs = @ \ {s.phoneStateListener},
                       !.phoneStateListener = NoObject,
                       !.isGsmListening = FALSE],
              exc |-> "none", t |-> [t EXCEPT !.telUnreg = telUnreg]]
        ELSE [s |-> s, exc |-> "Exception", t |-> [t EXCEPT !.telUnreg = telUnreg]]
      ELSE [s |-> [s EXCEPT !.isGsmListening = FALSE], exc |-> "none", t |-> t]

stopGsmListenerInternal(s, telUnreg, t) ==
    stopGsmListenerInternalAt(sdkInt, s, telUnreg, t)

\* stopListener resetting the stored call state, as the audio-focus stop
\* resets its state.
StopListenerBodyAt_ResetsState(sdk, s, telUnreg) ==
    LET r == stopGsmListenerInternalAt(sdk, s, telUnreg, NoTrace) IN
    IF r.exc = "none"
    THEN Resolved([r.s EXCEPT !.currentGsmState = "IDLE"], r.t)
    ELSE Rejected(r.s, "STOP_ERROR", r.t)

\* stopListener(promise) on a device of API level sdk.
StopListenerBodyAt(sdk, s, telUnreg) ==
    LET r == stopGsmListenerInternalAt(sdk, s, telUnreg, NoTrace) IN
    IF r.exc = "none" THEN Resolved(r.s, r.t) ELSE Rejected(r.s, "STOP_ERROR", r.t)

StopListenerBody(s, telUnreg) == StopListenerBodyAt(sdkInt, s, telUnreg)

\* The switch without its UNKNOWN default: stateString keeps its initial
\* value for a code that is none of the three.
GsmStateString_DefaultIdle(state) ==
    CASE state = CALL_STATE_RINGING -> "RINGING"
      [] state = CALL_STATE_OFFHOOK -> "OFFHOOK"
      [] OTHER -> "IDLE"

\* The switch of handleGsmCallStateChanged.
GsmStateString(state) ==
    CASE state = CALL_STATE_IDLE -> "IDLE"
      [] state = CALL_STATE_RINGING -> "RINGING"
      [] state = CALL_STATE_OFFHOOK -> "OFFHOOK"
      [] OTHER -> "UNKNOWN"

\* The WritableMap handleGsmCallStateChanged builds.
GsmParams(state, phoneNumber) ==
    [state |-> GsmStateString(state),
     phoneNumber |-> IF phoneNumber # NullString THEN phoneNumber ELSE "",
     type |-> "gsm"]

\* sendEvent without its test of hasActiveReactInstance.
sendEvent_NoInstanceTest(eventName, params) ==
    emitted' = Append(emitted, [name |-> eventName, params |-> params])

\* sendEvent(eventName, params).
sendEvent(eventName, params) ==
    IF hasActiveReactInstance
    THEN emitted' = Append(emitted, [name |-> eventName, params |-> params])
    ELSE emitted' = emitted

\* isActive / getCallState.
isActive == isGsmListening
getCallState == currentGsmState

\* ========================== AUDIO FOCUS DETECTION =========================

\* Lines 213-237 of startAudioFocusListener (the same code is in
\* startAllListeners): a new OnAudioFocusChangeListener, from API level O an
\* AudioFocusRequest built around it, then requestAudioFocus.  A granted or a
\* delayed request leaves the listener registered with the OS.
RequestFocus(s, id, audReq) ==
    LET s1 == [s EXCEPT !.audioFocusChangeListener = id]
        s2 == IF sdkInt >= VERSION_CODES_O
              THEN [s1 EXCEPT !.audioFocusRequest = id]
              ELSE s1
    IN
    CASE audReq = "error" -> [s |-> s2, exc |-> "Exception", result |-> "na"]
      [] audReq = "granted" ->
           [s |-> [s2 EXCEPT !.focusRegs = @ \cup {id}], exc |-> "none",
            result |-> audReq]
      [] audReq = "delayed" ->
           [s |-> [s2 EXCEPT !.focusRegs = @ \cup {id},
                             !.focusDelayed = @ \cup {id}],
            exc |-> "none", result |-> audReq]
      [] OTHER -> [s |-> s2, exc |-> "none", result |-> audReq]

\* The granted branch without its assignment to hasAudioFocus.
FocusGranted_NoFocus(s) ==
    [s EXCEPT !.currentAudioFocusState = "FOCUS_GAINED",
              !.isAudioFocusListening = TRUE]

\* The granted branch in a module that keeps one listening flag for both
\* trackers.
FocusGranted_OneFlag(s) ==
    [s EXCEPT !.hasAudioFocus = TRUE,
              !.currentAudioFocusState = "FOCUS_GAINED",
              !.isAudioFocusListening = TRUE,
              !.isGsmListening = TRUE]

\* The assignments of the `result == AUDIOFOCUS_REQUEST_GRANTED` branch.
FocusGranted(s) ==
    [s EXCEPT !.hasAudioFocus = TRUE,
              !.currentAudioFocusState = "FOCUS_GAINED",
              !.isAudioFocusListening = TRUE]

\* startAudioFocusListener testing `result != AUDIOFOCUS_REQUEST_FAILED`: a
\* delayed request counts as granted.
StartAudioFocusListenerBody_NotFailed(s, audSvc, audReq) ==
    LET s1 == [s EXCEPT !.audioManager = ManagerOf(audSvc, "AudioManager")]
        t1 == [NoTrace EXCEPT !.audSvc = SvcTrace(audSvc)]
        r == RequestFocus(s1, FreshId(s1.focusRegs), audReq)
        t2 == [t1 EXCEPT !.audReq = audReq]
    IN
    CASE s.isAudioFocusListening -> Resolved(s, [NoTrace EXCEPT !.audSvc = "already"])
      [] s1.audioManager = "null" -> Rejected(s1, "AUDIO_ERROR", t1)
      [] r.exc # "none" -> Rejected(r.s, "START_ERROR", t2)
      [] r.result \in {"granted", "delayed"} -> Resolved(FocusGranted(r.s), t2)
      [] OTHER -> Rejected(r.s, "AUDIO_FOCUS_ERROR", t2)

\* startAudioFocusListener without its `if (isAudioFocusListening)` early
\* return: a second start requests the focus again.
StartAudioFocusListenerBody_NoGuard(s, audSvc, audReq) ==
    LET s1 == [s EXCEPT !.audioManager = ManagerOf(audSvc, "AudioManager")]
        t1 == [NoTrace EXCEPT !.audSvc = SvcTrace(audSvc)]
        r == RequestFocus(s1, FreshId(s1.focusRegs), audReq)
        t2 == [t1 EXCEPT !.audReq = audReq]
    IN
    CASE s1.audioManager = "null" -> Rejected(s1, "AUDIO_ERROR", t1)
      [] r.exc # "none" -> Rejected(r.s, "START_ERROR", t2)
      [] r.result = "granted" -> Resolved(FocusGranted(r.s), t2)
      [] OTHER -> Rejected(r.s, "AUDIO_FOCUS_ERROR", t2)

\* startAudioFocusListener(promise).
StartAudioFocusListenerBody(s, audSvc, audReq) ==
    IF s.isAudioFocusListening
    THEN Resolved(s, [NoTrace EXCEPT !.audSvc = "already"])
    ELSE
      LET s1 == [s EXCEPT !.audioManager = ManagerOf(audSvc, "AudioManager")]
          t1 == [NoTrace EXCEPT !.audSvc = SvcTrace(audSvc)]
      IN
      IF s1.audioManager = "null"
      THEN Rejected(s1, "AUDIO_ERROR", t1)
      ELSE
        LET r == RequestFocus(s1, FreshId(s1.focusRegs), audReq)
            t2 == [t1 EXCEPT !.audReq = audReq]
        IN
        CASE r.exc # "none" -> Rejected(r.s, "START_ERROR", t2)
          [] r.result = "granted" -> Resolved(FocusGranted(r.s), t2)
          [] OTHER -> Rejected(r.s, "AUDIO_FOCUS_ERROR", t2)

\* stopAudioFocusListenerInternal.
stopAudioFocusListenerInternal(s, audAbandon, t) ==
    LET reset(x) == [x EXCEPT !.isAudioFocusListening = FALSE,
                              !.hasAudioFocus = FALSE,
                              !.currentAudioFocusState = "NONE"]
        thrown == [s |-> s, exc |-> "Exception",
                   t |-> [t EXCEPT !.audAbandon = audAbandon]]
    IN
    IF s.audioManager # "null"
    THEN
      IF sdkInt >= VERSION_CODES_O /\ s.audioFocusRequest # NoObject
      THEN
        IF audAbandon = "ok"
        THEN [s |-> reset([s EXCEPT
                             !.focusRegs = @ \ {s.audioFocusRequest},
                             !.focusDelayed = @ \ {s.audioFocusRequest},
                             !.audioFocusRequest = NoObject,
                             !.audioFocusChangeListener = NoObject]),
              exc |-> "none", t |-> [t EXCEPT !.audAbandon = audAbandon]]
        ELSE thrown
      ELSE IF s.audioFocusChangeListener # NoObject
      THEN
        IF audAbandon = "ok"
        THEN [s |-> reset([s EXCEPT
                             !.focusRegs = @ \ {s.audioFocusChangeListener},
                             !.focusDelayed = @ \ {s.audioFocusChangeListener},
                             !.audioFocusChangeListener = NoObject]),
              exc |-> "none", t |-> [t EXCEPT !.audAbandon = audAbandon]]
        ELSE thrown
      ELSE [s |-> reset([s EXCEPT !.audioFocusChangeListener = NoObject]),
            exc |-> "none", t |-> t]
    ELSE [s |-> reset(s), exc |-> "none", t |-> t]

\* stopAudioFocusListener with promise.resolve(true) ahead of the internal
\* stop: when the stop throws, the catch rejects a promise already resolved.
StopAudioFocusListenerBody_ResolveFirst(s, audAbandon) ==
    LET r == stopAudioFocusListenerInternal(s, audAbandon, NoTrace) IN
    IF r.exc = "none"
    THEN Resolved(r.s, r.t)
    ELSE [Resolved(r.s, r.t) EXCEPT !.promise = <<"resolve", "reject">>]

\* stopAudioFocusListener(promise).
StopAudioFocusListenerBody(s, audAbandon) ==
    LET r == stopAudioFocusListenerInternal(s, audAbandon, NoTrace) IN
    IF r.exc = "none" THEN Resolved(r.s, r.t) ELSE Rejected(r.s, "STOP_ERROR", r.t)

\* The switch of handleAudioFocusChange: the state string.
FocusStateString(focusChange) ==
    CASE focusChange = AUDIOFOCUS_GAIN -> "FOCUS_GAINED"
      [] focusChange = AUDIOFOCUS_LOSS -> "FOCUS_LOSS"
      [] focusChange = AUDIOFOCUS_LOSS_TRANSIENT -> "FOCUS_LOSS_TRANSIENT"
      [] focusChange = AUDIOFOCUS_LOSS_TRANSIENT_CAN_DUCK -> "FOCUS_LOSS_CAN_DUCK"
      [] OTHER -> "UNKNOWN"

\* The switch with FOCUS_LOSS_CAN_DUCK counted as an interruption.
FocusIsInterrupted_Duck(focusChange) ==
    focusChange \in {AUDIOFOCUS_LOSS, AUDIOFOCUS_LOSS_TRANSIENT,
                     AUDIOFOCUS_LOSS_TRANSIENT_CAN_DUCK}

\* The switch of handleAudioFocusChange: the local isInterrupted.
FocusIsInterrupted(focusChange) ==
    CASE focusChange = AUDIOFOCUS_GAIN -> FALSE
      [] focusChange = AUDIOFOCUS_LOSS -> TRUE
      [] focusChange = AUDIOFOCUS_LOSS_TRANSIENT -> TRUE
      [] focusChange = AUDIOFOCUS_LOSS_TRANSIENT_CAN_DUCK -> FALSE
      [] OTHER -> FALSE

\* The switch of handleAudioFocusChange: the field hasAudioFocus, which the
\* default branch does not assign.
FocusHasAudioFocus(focusChange, old) ==
    CASE focusChange = AUDIOFOCUS_GAIN -> TRUE
      [] focusChange = AUDIOFOCUS_LOSS -> FALSE
      [] focusChange = AUDIOFOCUS_LOSS_TRANSIENT -> FALSE
      [] focusChange = AUDIOFOCUS_LOSS_TRANSIENT_CAN_DUCK -> TRUE
      [] OTHER -> old

\* The WritableMap handleAudioFocusChange builds.
AudioFocusParams(focusChange, old) ==
    [state |-> FocusStateString(focusChange),
     isInterrupted |-> FocusIsInterrupted(focusChange),
     hasAudioFocus |-> FocusHasAudioFocus(focusChange, old),
     type |-> "audio_focus"]

\* isAudioFocusActive / getAudioFocusState.
isAudioFocusActive == isAudioFocusListening
getAudioFocusState ==
    [state |-> currentAudioFocusState, hasAudioFocus |-> hasAudioFocus,
     isListening |-> isAudioFocusListening]

\* ============================= COMBINED METHODS ===========================

\* startAllListeners(promise): the GSM block of its try.
StartAllGsmPart(s, telSvc, telReg) ==
    IF s.isGsmListening
    THEN [s |-> s, exc |-> "none", t |-> [NoTrace EXCEPT !.telSvc = "already"]]
    ELSE
      LET s1 == [s EXCEPT !.telephonyManager = ManagerOf(telSvc, "TelephonyManager")]
          t1 == [NoTrace EXCEPT !.telSvc = SvcTrace(telSvc)]
      IN
      IF s1.telephonyManager # "null"
      THEN
        LET r == StartGsmByVersion(s1, FreshId(s1.telephonyRegs), telReg)
            t2 == [t1 EXCEPT !.telReg = telReg]
        IN
        IF r.exc = "none"
        THEN [s |-> [r.s EXCEPT !.isGsmListening = TRUE], exc |-> "none", t |-> t2]
        ELSE [s |-> r.s, exc |-> r.exc, t |-> t2]
      ELSE [s |-> s1, exc |-> "none", t |-> t1]

\* startAllListeners(promise): the audio-focus block of its try.
StartAllAudioPart(s, audSvc, audReq, t) ==
    IF s.isAudioFocusListening
    THEN [s |-> s, exc |-> "none", t |-> [t EXCEPT !.audSvc = "already"]]
    ELSE
      LET s1 == [s EXCEPT !.audioManager = ManagerOf(audSvc, "AudioManager")]
          t1 == [t EXCEPT !.audSvc = SvcTrace(audSvc)]
      IN
      IF s1.audioManager # "null"
      THEN
        LET r == RequestFocus(s1, FreshId(s1.focusRegs), audReq)
            t2 == [t1 EXCEPT !.audReq = audReq]
        IN
        CASE r.exc # "none" -> [s |-> r.s, exc |-> r.exc, t |-> t2]
          [] r.result = "granted" ->
               [s |-> FocusGranted(r.s), exc |-> "none", t |-> t2]
          [] OTHER -> [s |-> r.s, exc |-> "none", t |-> t2]
      ELSE [s |-> s1, exc |-> "none", t |-> t1]

\* startAllListeners(promise): both blocks in one try, one catch (Exception).
StartAllListenersBody(s, telSvc, telReg, audSvc, audReq) ==
    LET g == StartAllGsmPart(s, telSvc, telReg) IN
    IF g.exc # "none"
    THEN Rejected(g.s, "START_ERROR", g.t)
    ELSE
      LET a == StartAllAudioPart(g.s, audSvc, audReq, g.t) IN
      IF a.exc # "none"
      THEN Rejected(a.s, "START_ERROR", a.t)
      ELSE Resolved(a.s, a.t)

\* stopGsmListenerInternal(); stopAudioFocusListenerInternal(): the sequence
\* shared by stopAllListeners and onHostDestroy.
StopBothInternal(s, telUnreg, audAbandon) ==
    LET g == stopGsmListenerInternal(s, telUnreg, NoTrace) IN
    IF g.exc # "none"
    THEN g
    ELSE stopAudioFocusListenerInternal(g.s, audAbandon, g.t)

\* stopAllListeners(promise).
StopAllListenersBody(s, telUnreg, audAbandon) ==
    LET r == StopBothInternal(s, telUnreg, audAbandon) IN
    IF r.exc = "none" THEN Resolved(r.s, r.t) ELSE Rejected(r.s, "STOP_ERROR", r.t)

\* ================================ ACTIONS =================================

TelRegAnswers == {"ok", "security", "error"}
TelUnregAnswers == {"ok", "throw"}
\* requestAudioFocus below API level O has no delayed grant.
AudReqAnswers ==
    {"granted", "failed", "error"}
        \cup (IF sdkInt >= VERSION_CODES_O THEN {"delayed"} ELSE {})
AudAbandonAnswers == {"ok", "throw"}

\* Guards of the bounds: `new` finds an id, the emitter's queue has room.
CanAllocateTel == isGsmListening \/ telephonyRegs # ObjectIds
CanAllocateAudio == isAudioFocusListening \/ focusRegs # ObjectIds
CanEmit == hasActiveReactInstance => Len(emitted) < MaxInFlight

\* A @ReactMethod ends: the state it leaves and the promise it settled.
FinishCall(op, r) ==
    /\ Install(r.s)
    /\ lastCall' = MkCall(op, r.settle, r.code, r.promise,
                          r.s.isGsmListening, r.s.isAudioFocusListening, r.t)
    /\ UNCHANGED <<sdkInt, manifestVars, hasActiveReactInstance, emitted, auxVars>>

Finish(op, r) == FinishCall(op, r) /\ UNCHANGED twin

startListener ==
    /\ hasActiveReactInstance
    /\ CanAllocateTel
    /\ \E telSvc \in BOOLEAN, telReg \in TelRegAnswers :
         Finish("startListener", StartListenerBody(Cur, telSvc, telReg))

stopListener ==
    /\ hasActiveReactInstance
    /\ \E telUnreg \in TelUnregAnswers :
         Finish("stopListener", StopListenerBody(Cur, telUnreg))

startAudioFocusListener ==
    /\ hasActiveReactInstance
    /\ CanAllocateAudio
    /\ \E audSvc \in BOOLEAN, audReq \in AudReqAnswers :
         Finish("startAudioFocusListener",
                StartAudioFocusListenerBody(Cur, audSvc, audReq))

stopAudioFocusListener ==
    /\ hasActiveReactInstance
    /\ \E audAbandon \in AudAbandonAnswers :
         Finish("stopAudioFocusListener",
                StopAudioFocusListenerBody(Cur, audAbandon))

startAllListeners ==
    /\ hasActiveReactInstance
    /\ CanAllocateTel
    /\ CanAllocateAudio
    /\ \E telSvc \in BOOLEAN, telReg \in TelRegAnswers,
          audSvc \in BOOLEAN, audReq \in AudReqAnswers :
         Finish("startAllListeners",
                StartAllListenersBody(Cur, telSvc, telReg, audSvc, audReq))

stopAllListeners ==
    /\ hasActiveReactInstance
    /\ \E telUnreg \in TelUnregAnswers, audAbandon \in AudAbandonAnswers :
         Finish("stopAllListeners",
                StopAllListenersBody(Cur, telUnreg, audAbandon))

\* isActive(promise), getCallState(promise), isAudioFocusActive(promise),
\* getAudioFocusState(promise): promise.resolve of the fields, nothing else.
isActive_ReactMethod ==
    /\ hasActiveReactInstance
    /\ Finish("isActive", Resolved(Cur, NoTrace))

getCallState_ReactMethod ==
    /\ hasActiveReactInstance
    /\ Finish("getCallState", Resolved(Cur, NoTrace))

isAudioFocusActive_ReactMethod ==
    /\ hasActiveReactInstance
    /\ Finish("isAudioFocusActive", Resolved(Cur, NoTrace))

getAudioFocusState_ReactMethod ==
    /\ hasActiveReactInstance
    /\ Finish("getAudioFocusState", Resolved(Cur, NoTrace))

\* onHostDestroy(): the two internal stops, no try/catch around them.
onHostDestroy ==
    \E telUnreg \in TelUnregAnswers, audAbandon \in AudAbandonAnswers :
      LET r == StopBothInternal(Cur, telUnreg, audAbandon) IN
      /\ Install(r.s)
      /\ lastCall' = MkCall("onHostDestroy",
                            IF r.exc = "none" THEN "return" ELSE "throw", "",
                            <<>>,
                            r.s.isGsmListening, r.s.isAudioFocusListening, r.t)
      /\ UNCHANGED <<sdkInt, manifestVars, hasActiveReactInstance, emitted, auxVars, twin>>

\* A call-state change as the OS knows it: the state code and the number of
\* the call (null when the OS withholds it).
OsCallState(state, phoneNumber) == [state |-> state, phoneNumber |-> phoneNumber]

\* handleGsmCallStateChanged(state, phoneNumber).
handleGsmCallStateChanged(state, phoneNumber) ==
    /\ currentGsmState' = GsmStateString(state)
    /\ sendEvent(GSM_EVENT_NAME, GsmParams(state, phoneNumber))
    /\ UNCHANGED <<telephonyManager, phoneStateListener, callStateCallback,
                   isGsmListening, telephonyRegs, audioVars, sdkInt, manifestVars,
                   hasActiveReactInstance, lastCall, lastFocusChange,
                   handlerVars, jsVars>>

\* The OS calls a registered PhoneStateListener (below API level S).
PhoneStateListener_onCallStateChanged ==
    /\ sdkInt < VERSION_CODES_S
    /\ telephonyRegs # {}
    /\ CanEmit
    /\ \E state \in CallStateCodes, phoneNumber \in OsPhoneNumbers :
         /\ lastGsmNotification' = <<OsCallState(state, phoneNumber)>>
         /\ handleGsmCallStateChanged(state, phoneNumber)
    /\ UNCHANGED twin

\* The OS calls a registered CallStateCallback (from API level S): the
\* callback's onCallStateChanged(int state) is not given the number of the
\* call, and passes "" in its place.
CallStateCallback_onCallStateChanged ==
    /\ sdkInt >= VERSION_CODES_S
    /\ telephonyRegs # {}
    /\ CanEmit
    /\ \E state \in CallStateCodes, phoneNumber \in OsPhoneNumbers :
         /\ lastGsmNotification' = <<OsCallState(state, phoneNumber)>>
         /\ handleGsmCallStateChanged(state, "")
    /\ UNCHANGED twin

\* The two statements of handleGsmCallStateChanged that act on shared state,
\* in the order of the code: the assignment to currentGsmState (line 144),
\* then sendEvent (line 150).
GsmHandlerOrder_PublishFirst == <<"publish", "store">>
GsmHandlerOrder == <<"store", "publish">>

\* One of the two statements, executed for the call (state, phoneNumber).
GsmHandlerStatement(kind, state, phoneNumber) ==
    IF kind = "store"
    THEN /\ currentGsmState' = GsmStateString(state)
         /\ emitted' = emitted
    ELSE /\ sendEvent(GSM_EVENT_NAME, GsmParams(state, phoneNumber))
         /\ currentGsmState' = currentGsmState

\* From API level S the callback is registered with getMainExecutor() (line
\* 113), so it runs on the main thread while the @ReactMethod operations run
\* on the bridge's thread: the handler is entered and executes its first
\* statement ...
CallStateCallback_Begin ==
    /\ sdkInt >= VERSION_CODES_S
    /\ telephonyRegs # {}
    /\ gsmHandler = <<>>
    /\ CanEmit
    /\ \E state \in CallStateCodes, phoneNumber \in OsPhoneNumbers :
         /\ lastGsmNotification' = <<OsCallState(state, phoneNumber)>>
         /\ gsmHandler' = <<[state |-> state, phoneNumber |-> ""]>>
         /\ GsmHandlerStatement(GsmHandlerOrder[1], state, "")
    /\ UNCHANGED <<telephonyManager, phoneStateListener, callStateCallback,
                   isGsmListening, telephonyRegs, audioVars, sdkInt, manifestVars,
                   hasActiveReactInstance, lastCall, lastFocusChange,
                   audioHandler, jsVars, twin>>

\* ... and, after whatever the other threads did meanwhile, its second one.
CallStateCallback_End ==
    /\ gsmHandler # <<>>
    /\ GsmHandlerStatement(GsmHandlerOrder[2], gsmHandler[1].state,
                           gsmHandler[1].phoneNumber)
    /\ gsmHandler' = <<>>
    /\ UNCHANGED <<telephonyManager, phoneStateListener, callStateCallback,
                   isGsmListening, telephonyRegs, audioVars, sdkInt, manifestVars,
                   hasActiveReactInstance, lastCall, osVars, audioHandler,
                   jsVars, twin>>

\* handleAudioFocusChange(focusChange).
handleAudioFocusChange(focusChange) ==
    /\ hasAudioFocus' = FocusHasAudioFocus(focusChange, hasAudioFocus)
    /\ currentAudioFocusState' = FocusStateString(focusChange)
    /\ sendEvent(AUDIO_FOCUS_EVENT_NAME, AudioFocusParams(focusChange, hasAudioFocus))
    /\ lastFocusChange' = <<focusChange>>
    /\ UNCHANGED <<audioManager, audioFocusRequest, audioFocusChangeListener,
                   isAudioFocusListening, focusRegs, gsmVars, sdkInt, manifestVars,
                   hasActiveReactInstance, lastCall, lastGsmNotification,
                   handlerVars, jsVars, twin>>

\* The OS calls a registered OnAudioFocusChangeListener.  A listener whose
\* request was delayed is first told of the gain it was waiting for.
onAudioFocusChange ==
    /\ CanEmit
    /\ \E id \in focusRegs, focusChange \in FocusChangeCodes :
         /\ id \in focusDelayed => focusChange = AUDIOFOCUS_GAIN
         /\ focusDelayed' = focusDelayed \ {id}
         /\ handleAudioFocusChange(focusChange)

\* The listener's callback runs on the looper the AudioManager dispatches
\* focus changes on, the @ReactMethod operations on the bridge's thread, and
\* no lock or volatile orders the two.  The handler is entered and runs its
\* switch, which assigns hasAudioFocus (lines 268-296) ...
onAudioFocusChange_Begin ==
    /\ CanEmit
    /\ audioHandler = <<>>
    /\ \E id \in focusRegs, focusChange \in FocusChangeCodes :
         /\ id \in focusDelayed => focusChange = AUDIOFOCUS_GAIN
         /\ focusDelayed' = focusDelayed \ {id}
         /\ lastFocusChange' = <<focusChange>>
         /\ audioHandler' = <<[focusChange |-> focusChange]>>
         /\ hasAudioFocus' = FocusHasAudioFocus(focusChange, hasAudioFocus)
    /\ UNCHANGED <<audioManager, audioFocusRequest, audioFocusChangeListener,
                   isAudioFocusListening, currentAudioFocusState, focusRegs,
                   gsmVars, sdkInt, manifestVars, hasActiveReactInstance, emitted, lastCall,
                   lastGsmNotification, gsmHandler, jsVars, twin>>

\* ... and, after whatever the other threads did meanwhile, assigns
\* currentAudioFocusState (line 298), builds the params, reading the field
\* hasAudioFocus as it is by then (line 302), and calls sendEvent (line 305).
onAudioFocusChange_End ==
    /\ audioHandler # <<>>
    /\ LET focusChange == audioHandler[1].focusChange IN
       /\ currentAudioFocusState' = FocusStateString(focusChange)
       /\ sendEvent(AUDIO_FOCUS_EVENT_NAME,
                    [AudioFocusParams(focusChange, hasAudioFocus)
                       EXCEPT !.hasAudioFocus = hasAudioFocus])
    /\ audioHandler' = <<>>
    /\ UNCHANGED <<audioManager, audioFocusRequest, audioFocusChangeListener,
                   isAudioFocusListening, hasAudioFocus, focusRegs,
                   focusDelayed, gsmVars, sdkInt, manifestVars, hasActiveReactInstance,
                   lastCall, osVars, gsmHandler, jsVars, twin>>

\* ------------------------------------------------------ the JavaScript API
\* eventEmitter.addListener(eventName, callback): a new subscription, entered
\* in the registry under eventName.
EmitterAddListener(eventName) ==
    /\ Len(subscriptions) < MaxSubscriptions
    /\ subscriptions' = Append(subscriptions, eventName)
    /\ listeners' = [listeners EXCEPT ![eventName] = @ \cup {Len(subscriptions) + 1}]

\* eventEmitter.removeAllListeners(eventName), for each of the names.
EmitterRemoveAllListeners(names) ==
    listeners' = [n \in EventNames |-> IF n \in names THEN {} ELSE listeners[n]]

\* The subscriptions made for one of the names.
SubscriptionsFor(names) ==
    {i \in 1..Len(subscriptions) : subscriptions[i] \in names}

JsUnchanged ==
    UNCHANGED <<sdkInt, manifestVars, gsmVars, audioVars, hasActiveReactInstance, emitted,
                lastCall, osVars, handlerVars, lastDelivery, twin>>

\* addCallStateListener(callback) (and its deprecated alias addListener).
addCallStateListener ==
    /\ hasActiveReactInstance
    /\ EmitterAddListener(JS_CALL_STATE_EVENT)
    /\ UNCHANGED unsubscribed
    /\ JsUnchanged

\* addAudioFocusListener(callback).
addAudioFocusListener ==
    /\ hasActiveReactInstance
    /\ EmitterAddListener(JS_AUDIO_FOCUS_EVENT)
    /\ UNCHANGED unsubscribed
    /\ JsUnchanged

\* The remove() of the object addCallStateListener / addAudioFocusListener
\* returned: subscription.remove().
Subscription_remove ==
    /\ hasActiveReactInstance
    /\ \E i \in 1..Len(subscriptions) :
         /\ listeners' = [listeners EXCEPT ![subscriptions[i]] = @ \ {i}]
         /\ unsubscribed' = unsubscribed \cup {i}
    /\ UNCHANGED subscriptions
    /\ JsUnchanged

\* removeAllListeners(): "Remove all GSM call state listeners".
removeAllListeners ==
    /\ hasActiveReactInstance
    /\ EmitterRemoveAllListeners({JS_CALL_STATE_EVENT})
    /\ unsubscribed' = unsubscribed \cup SubscriptionsFor({GSM_EVENT_NAME})
    /\ UNCHANGED subscriptions
    /\ JsUnchanged

\* removeAllAudioFocusListeners(): "Remove all audio focus listeners".
removeAllAudioFocusListeners ==
    /\ hasActiveReactInstance
    /\ EmitterRemoveAllListeners({JS_AUDIO_FOCUS_EVENT})
    /\ unsubscribed' = unsubscribed \cup SubscriptionsFor({AUDIO_FOCUS_EVENT_NAME})
    /\ UNCHANGED subscriptions
    /\ JsUnchanged

\* The names removeAll() clears, and removeAll clearing the first only.
RemoveAllEventNames_CallStateOnly == {JS_CALL_STATE_EVENT}
RemoveAllEventNames == {JS_CALL_STATE_EVENT, JS_AUDIO_FOCUS_EVENT}

\* removeAll(): "Remove all listeners (both GSM and audio focus)".
removeAll ==
    /\ hasActiveReactInstance
    /\ EmitterRemoveAllListeners(RemoveAllEventNames)
    /\ unsubscribed' = unsubscribed
          \cup SubscriptionsFor({GSM_EVENT_NAME, AUDIO_FOCUS_EVENT_NAME})
    /\ UNCHANGED subscriptions
    /\ JsUnchanged

\* The emitter invokes the callbacks registered under the event's name
\* (made: how many subscriptions had been created by then).
Delivery(event) ==
    [name |-> event.name, invoked |-> listeners[event.name],
     made |-> Len(subscriptions)]

\* RCTDeviceEventEmitter hands the oldest emitted event to JavaScript.
DeliverToJS ==
    /\ emitted # <<>>
    /\ emitted' = Tail(emitted)
    /\ lastDelivery' = <<Delivery(emitted[1])>>
    /\ UNCHANGED <<sdkInt, manifestVars, gsmVars, audioVars, hasActiveReactInstance, lastCall,
                   osVars, handlerVars, subscriptions, listeners, unsubscribed,
                   twin>>

\* The React instance goes away; sendEvent then emits nothing.
ReactInstanceDestroyed ==
    /\ hasActiveReactInstance
    /\ hasActiveReactInstance' = FALSE
    /\ UNCHANGED <<sdkInt, manifestVars, gsmVars, audioVars, emitted, lastCall, auxVars,
                   twin>>

\* ------------------------------------------- the two strategies side by side
\* twin is a second CallDetectionModule on a device of the other strategy
\* (TelephonyCallback from API level S, PhoneStateListener below): it is given
\* the same calls, the same OS answers and the same call-state changes.
TwinSdk == IF sdkInt >= VERSION_CODES_S THEN VERSION_CODES_O ELSE VERSION_CODES_S

\* The phone number a registered callback hands to handleGsmCallStateChanged:
\* PhoneStateListener passes the OS's number on (line 102), CallStateCallback
\* passes "" (line 122).
CallbackNumber(sdk, phoneNumber) ==
    IF sdk >= VERSION_CODES_S THEN "" ELSE phoneNumber

TwinAfterCall(r) ==
    [twin EXCEPT !.s = r.s, !.settle = r.settle, !.code = r.code]

startListener_Both ==
    /\ hasActiveReactInstance
    /\ CanAllocateTel
    /\ twin.s.isGsmListening \/ twin.s.telephonyRegs # ObjectIds
    /\ \E telSvc \in BOOLEAN, telReg \in TelRegAnswers :
         /\ FinishCall("startListener", StartListenerBody(Cur, telSvc, telReg))
         /\ twin' = TwinAfterCall(
                      StartListenerBodyAt(TwinSdk, twin.s, telSvc, telReg))

stopListener_Both ==
    /\ hasActiveReactInstance
    /\ \E telUnreg \in TelUnregAnswers :
         /\ FinishCall("stopListener", StopListenerBody(Cur, telUnreg))
         /\ twin' = TwinAfterCall(StopListenerBodyAt(TwinSdk, twin.s, telUnreg))

\* A call-state change reaches every module that has a callback registered.
onCallStateChanged_Both ==
    /\ telephonyRegs # {} \/ twin.s.telephonyRegs # {}
    /\ CanEmit
    /\ hasActiveReactInstance => Len(twin.emitted) < MaxInFlight
    /\ \E state \in CallStateCodes, phoneNumber \in OsPhoneNumbers :
         /\ IF telephonyRegs # {}
            THEN /\ lastGsmNotification' = <<OsCallState(state, phoneNumber)>>
                 /\ handleGsmCallStateChanged(
                        state, CallbackNumber(sdkInt, phoneNumber))
            ELSE UNCHANGED <<sdkInt, manifestVars, gsmVars, audioVars, hasActiveReactInstance,
                             emitted, lastCall, osVars, handlerVars>>
         /\ UNCHANGED jsVars
         /\ twin' =
              IF twin.s.telephonyRegs # {}
              THEN [twin EXCEPT
                      !.s.currentGsmState = GsmStateString(state),
                      !.emitted =
                          IF hasActiveReactInstance
                          THEN Append(@, [name |-> GSM_EVENT_NAME,
                                          params |-> GsmParams(state,
                                              CallbackNumber(TwinSdk, phoneNumber))])
                          ELSE @]
              ELSE twin

DeliverToJS_Both ==
    /\ emitted # <<>> \/ twin.emitted # <<>>
    /\ emitted' = IF emitted # <<>> THEN Tail(emitted) ELSE emitted
    /\ lastDelivery' =
         IF emitted # <<>> THEN <<Delivery(emitted[1])>> ELSE lastDelivery
    /\ twin' = [twin EXCEPT !.emitted = IF @ # <<>> THEN Tail(@) ELSE @]
    /\ UNCHANGED <<sdkInt, manifestVars, gsmVars, audioVars, hasActiveReactInstance, lastCall,
                   osVars, handlerVars, subscriptions, listeners, unsubscribed>>

\* The fields of a CallDetectionModule just constructed, and an OS that
\* holds nothing of it.
NewModule ==
    [telephonyManager |-> "null", phoneStateListener |-> NoObject,
     callStateCallback |-> NoObject, isGsmListening |-> FALSE,
     currentGsmState |-> "IDLE", audioManager |-> "null",
     audioFocusRequest |-> NoObject, audioFocusChangeListener |-> NoObject,
     isAudioFocusListening |-> FALSE, currentAudioFocusState |-> "NONE",
     hasAudioFocus |-> FALSE, telephonyRegs |-> {}, focusRegs |-> {},
     focusDelayed |-> {}]

InitModule ==
    /\ sdkInt \in SdkLevels
    /\ telephonyManager = "null"
    /\ phoneStateListener = NoObject
    /\ callStateCallback = NoObject
    /\ isGsmListening = FALSE
    /\ currentGsmState = "IDLE"
    /\ audioManager = "null"
    /\ audioFocusRequest = NoObject
    /\ audioFocusChangeListener = NoObject
    /\ isAudioFocusListening = FALSE
    /\ currentAudioFocusState = "NONE"
    /\ hasAudioFocus = FALSE
    /\ telephonyRegs = {}
    /\ focusRegs = {}
    /\ focusDelayed = {}
    /\ hasActiveReactInstance = TRUE
    /\ emitted = <<>>
    /\ lastGsmNotification = <<>>
    /\ lastFocusChange = <<>>
    /\ gsmHandler = <<>>
    /\ audioHandler = <<>>
    /\ subscriptions = <<>>
    /\ listeners = [n \in EventNames |-> {}]
    /\ unsubscribed = {}
    /\ lastDelivery = <<>>
    /\ twin = [s |-> NewModule, settle |-> "none", code |-> "",
               emitted |-> <<>>]
    /\ lastCall = [op |-> "none", seq |-> 0, settle |-> "none", code |-> "",
                   promise |-> <<>>,
                   gsmListening |-> FALSE, audioFocusListening |-> FALSE,
                   os |-> NoTrace, prevOp |-> "none", prevSettle |-> "none"]

\* The plugins have not run yet on manifest m.
InitManifest(m) ==
    /\ manifestInput = m
    /\ packaged = [manifest |-> m, runs |-> 0, first |-> m]
    /\ typescript = [manifest |-> m, runs |-> 0, first |-> m]

Init == InitModule /\ InitManifest(NoUsesPermission)

\* The Expo config plugins, each applied to its own copy of one manifest
\* drawn from the bounded inputs.
InitPlugin == InitModule /\ \E m \in Manifests : InitManifest(m)

Next ==
    \/ startListener
    \/ stopListener
    \/ startAudioFocusListener
    \/ stopAudioFocusListener
    \/ startAllListeners
    \/ stopAllListeners
    \/ onHostDestroy
    \/ PhoneStateListener_onCallStateChanged
    \/ CallStateCallback_onCallStateChanged
    \/ onAudioFocusChange
    \/ DeliverToJS
    \/ ReactInstanceDestroyed

Spec == Init /\ [][Next]_vars

\* The call tracker alone: its two bridge operations and its OS callbacks.
NextGsm ==
    \/ startListener
    \/ stopListener
    \/ PhoneStateListener_onCallStateChanged
    \/ CallStateCallback_onCallStateChanged
    \/ DeliverToJS
    \/ ReactInstanceDestroyed

SpecGsm == Init /\ [][NextGsm]_vars

\* The audio-focus tracker alone.
NextAudio ==
    \/ startAudioFocusListener
    \/ stopAudioFocusListener
    \/ onAudioFocusChange
    \/ DeliverToJS
    \/ ReactInstanceDestroyed

SpecAudio == Init /\ [][NextAudio]_vars

\* The call tracker with the threads told apart: a callback on the main
\* executor interleaves with the bridge operations and with the delivery of
\* events; a PhoneStateListener (below API level S) is constructed on the
\* thread of the bridge call, which also runs its callbacks.
NextGsmThreads ==
    \/ startListener
    \/ stopListener
    \/ PhoneStateListener_onCallStateChanged
    \/ CallStateCallback_Begin
    \/ CallStateCallback_End
    \/ DeliverToJS
    \/ ReactInstanceDestroyed

SpecGsmThreads == Init /\ [][NextGsmThreads]_vars

\* The audio-focus tracker with the threads told apart.
NextAudioThreads ==
    \/ startAudioFocusListener
    \/ stopAudioFocusListener
    \/ onAudioFocusChange_Begin
    \/ onAudioFocusChange_End
    \/ DeliverToJS
    \/ ReactInstanceDestroyed

SpecAudioThreads == Init /\ [][NextAudioThreads]_vars

\* The call tracker and its twin of the other registration strategy.
NextGsmBoth ==
    \/ startListener_Both
    \/ stopListener_Both
    \/ onCallStateChanged_Both
    \/ DeliverToJS_Both
    \/ ReactInstanceDestroyed

SpecGsmBoth == Init /\ [][NextGsmBoth]_vars

\* The JavaScript subscriptions of both categories, and the call tracker as
\* the source of events.
NextRelay ==
    \/ startListener
    \/ PhoneStateListener_onCallStateChanged
    \/ CallStateCallback_onCallStateChanged
    \/ DeliverToJS
    \/ addCallStateListener
    \/ addAudioFocusListener
    \/ Subscription_remove
    \/ removeAllListeners
    \/ removeAllAudioFocusListeners
    \/ removeAll

SpecRelay == Init /\ [][NextRelay]_vars

\* The OS met by the latest call found every service and granted every
\* request.
OsGrantsEveryRequest ==
    /\ lastCall.os.telSvc \in {"na", "ok", "already"}
    /\ lastCall.os.telReg \in {"na", "ok"}
    /\ lastCall.os.telUnreg \in {"na", "ok"}
    /\ lastCall.os.audSvc \in {"na", "ok", "already"}
    /\ lastCall.os.audReq \in {"na", "granted"}
    /\ lastCall.os.audAbandon \in {"na", "ok"}

\* Both trackers at once, with the threads told apart: the single-tracker
\* operations of each and the OS callbacks of each, the handler of one
\* running between two statements of the other's.  The OS grants every
\* request of the four operations.
NextTrackers ==
    \/ startListener /\ OsGrantsEveryRequest'
    \/ stopListener /\ OsGrantsEveryRequest'
    \/ startAudioFocusListener /\ OsGrantsEveryRequest'
    \/ stopAudioFocusListener /\ OsGrantsEveryRequest'
    \/ PhoneStateListener_onCallStateChanged
    \/ CallStateCallback_Begin
    \/ CallStateCallback_End
    \/ onAudioFocusChange_Begin
    \/ onAudioFocusChange_End
    \/ DeliverToJS

SpecTrackers == Init /\ [][NextTrackers]_vars

\* The start operations repeated while the OS goes on notifying: the three
\* start operations, granted by the OS, and the callbacks of both trackers.
NextStarts ==
    \/ startListener /\ OsGrantsEveryRequest'
    \/ startAudioFocusListener /\ OsGrantsEveryRequest'
    \/ startAllListeners /\ OsGrantsEveryRequest'
    \/ PhoneStateListener_onCallStateChanged
    \/ CallStateCallback_onCallStateChanged
    \/ onAudioFocusChange
    \/ DeliverToJS

SpecStarts == Init /\ [][NextStarts]_vars

\* The notifications of both sources, before and after the React instance
\* goes away: both trackers are started by a startAllListeners that the OS
\* grants, and the OS calls the callbacks it holds.
NextNotifications ==
    \/ startAllListeners /\ OsGrantsEveryRequest'
    \/ PhoneStateListener_onCallStateChanged
    \/ CallStateCallback_onCallStateChanged
    \/ onAudioFocusChange
    \/ DeliverToJS
    \/ ReactInstanceDestroyed

SpecNotifications == Init /\ [][NextNotifications]_vars

\* The call tracker across its teardowns: started, notified, and stopped by
\* stopListener, stopAllListeners or onHostDestroy, next to an audio-focus
\* tracker whose start the OS grants.
NextGsmTeardown ==
    \/ startListener
    \/ startAudioFocusListener /\ OsGrantsEveryRequest'
    \/ stopListener
    \/ stopAllListeners
    \/ onHostDestroy
    \/ PhoneStateListener_onCallStateChanged
    \/ CallStateCallback_onCallStateChanged
    \/ DeliverToJS

SpecGsmTeardown == Init /\ [][NextGsmTeardown]_vars

\* expo prebuild runs the packaged plugin on the manifest.
ApplyPackagedPlugin ==
    /\ packaged.runs < MaxApplications
    /\ packaged' = PluginRun(packaged,
                             withCallDetection_Packaged(packaged.manifest))
    /\ UNCHANGED <<sdkInt, manifestInput, typescript, gsmVars, audioVars,
                   hasActiveReactInstance, emitted, lastCall, auxVars, twin>>

\* expo prebuild runs the TypeScript plugin on the manifest.
ApplyTypeScriptPlugin ==
    /\ typescript.runs < MaxApplications
    /\ typescript' = PluginRun(typescript,
                               withCallDetection_TypeScript(typescript.manifest))
    /\ UNCHANGED <<sdkInt, manifestInput, packaged, gsmVars, audioVars,
                   hasActiveReactInstance, emitted, lastCall, auxVars, twin>>

NextPlugin ==
    \/ ApplyPackagedPlugin
    \/ ApplyTypeScriptPlugin

SpecPlugin == InitPlugin /\ [][NextPlugin]_vars

\* The ten @ReactMethod operations that take a Promise.
NextPromises ==
    \/ startListener
    \/ stopListener
    \/ isActive_ReactMethod
    \/ getCallState_ReactMethod
    \/ startAudioFocusListener
    \/ stopAudioFocusListener
    \/ isAudioFocusActive_ReactMethod
    \/ getAudioFocusState_ReactMethod
    \/ startAllListeners
    \/ stopAllListeners

SpecPromises == Init /\ [][NextPromises]_vars

\* The JavaScript subscriptions across a host-destroy signal: the call
\* tracker is started, torn down by onHostDestroy and started again.
NextRelayLifecycle ==
    \/ startListener
    \/ onHostDestroy
    \/ PhoneStateListener_onCallStateChanged
    \/ CallStateCallback_onCallStateChanged
    \/ DeliverToJS
    \/ addCallStateListener
    \/ addAudioFocusListener

SpecRelayLifecycle == Init /\ [][NextRelayLifecycle]_vars

\* Every start / stop / teardown operation of both trackers, no OS callback.
NextLifecycle ==
    \/ startListener
    \/ stopListener
    \/ startAudioFocusListener
    \/ stopAudioFocusListener
    \/ startAllListeners
    \/ stopAllListeners
    \/ onHostDestroy

SpecLifecycle == Init /\ [][NextLifecycle]_vars

\* ================================ PROPERTIES ==============================

GsmStartOps == {"startListener", "startAllListeners"}
AudioStartOps == {"startAudioFocusListener", "startAllListeners"}
\* A bridge or lifecycle call happens in this step.
CallStep == lastCall'.seq # lastCall.seq
\* The params of the audio-focus events waiting for delivery.
AudioFocusEvents ==
    {emitted[i].params : i \in {j \in 1..Len(emitted) :
                                  emitted[j].name = AUDIO_FOCUS_EVENT_NAME}}

\* C1: startAllListeners whose telephony registration is refused with a
\* permission denial (so the call tracker was not listening) resolves, reports
\* gsmListening=false, still attempts the audio-focus tracker, and reports
\* audioFocusListening=true when that request is granted.
C1_StartAllSurvivesGsmFailure ==
    (lastCall.op = "startAllListeners" /\ lastCall.os.telReg = "security")
        => /\ lastCall.settle = "resolve"
           /\ ~lastCall.gsmListening
           /\ lastCall.os.audSvc # "na"
           /\ (lastCall.os.audReq = "granted" => lastCall.audioFocusListening)

\* C2: a stopListener / stopAudioFocusListener whose OS unregister / abandon
\* call throws still resolves and leaves the tracker's listening flag false.
C2_StopAbsorbsOsFailure ==
    /\ (lastCall.op = "stopListener" /\ lastCall.os.telUnreg = "throw")
           => (lastCall.settle = "resolve" /\ ~isGsmListening)
    /\ (lastCall.op = "stopAudioFocusListener" /\ lastCall.os.audAbandon = "throw")
           => (lastCall.settle = "resolve" /\ ~isAudioFocusListening)

\* C3: after stopAllListeners the promise is resolved and neither tracker is
\* listening, whatever the OS answered to the teardown calls.
C3_StopAllStopsBoth ==
    lastCall.op = "stopAllListeners"
        => /\ lastCall.settle = "resolve"
           /\ ~isActive
           /\ ~isAudioFocusActive

\* C4: a stop that is the first call ever made, or that directly follows a stop
\* of the same tracker, resolves and leaves the flag false; the second of two
\* stops makes no OS unregister / abandon call.
C4_StopIdempotent ==
    /\ (lastCall.op = "stopListener" /\ lastCall.prevOp \in {"none", "stopListener"})
           => /\ lastCall.settle = "resolve"
              /\ ~isActive
              /\ (lastCall.prevOp = "stopListener" => lastCall.os.telUnreg = "na")
    /\ (lastCall.op = "stopAudioFocusListener"
            /\ lastCall.prevOp \in {"none", "stopAudioFocusListener"})
           => /\ lastCall.settle = "resolve"
              /\ ~isAudioFocusActive
              /\ (lastCall.prevOp = "stopAudioFocusListener"
                      => lastCall.os.audAbandon = "na")

\* C5: a start call (single-tracker or startAllListeners) on a tracker that is
\* listening leaves it listening and makes no OS registration (the OS holds the
\* same registrations afterwards); a start call that takes a tracker from not
\* listening to listening adds exactly one OS registration.  So two successful
\* starts in a row issue one registration between them.
C5_StartIdempotent ==
    [][CallStep =>
         /\ lastCall'.op \in GsmStartOps =>
              /\ isGsmListening =>
                   /\ isGsmListening'
                   /\ telephonyRegs' = telephonyRegs
                   /\ lastCall'.os.telReg = "na"
              /\ (~isGsmListening /\ isGsmListening') =>
                   /\ Cardinality(telephonyRegs') = Cardinality(telephonyRegs) + 1
                   /\ lastCall'.os.telReg = "ok"
         /\ lastCall'.op \in AudioStartOps =>
              /\ isAudioFocusListening =>
                   /\ isAudioFocusListening'
                   /\ focusRegs' = focusRegs
                   /\ lastCall'.os.audReq = "na"
              /\ (~isAudioFocusListening /\ isAudioFocusListening') =>
                   /\ Cardinality(focusRegs') = Cardinality(focusRegs) + 1
                   /\ lastCall'.os.audReq = "granted"
      ]_vars

\* Two successful starts in a row have happened on both trackers, and each
\* holds one registration.
C5_Witness ==
    /\ lastCall.prevOp = "startAllListeners"
    /\ lastCall.prevSettle = "resolve"
    /\ lastCall.op = "startAllListeners"
    /\ lastCall.os.telSvc = "already"
    /\ lastCall.os.audSvc = "already"
    /\ isActive /\ isAudioFocusActive
    /\ Cardinality(telephonyRegs) = 1 /\ Cardinality(focusRegs) = 1

\* C6: after a start call in which a tracker's OS request failed (service
\* missing, permission denied, other exception, focus failed or delayed) that
\* tracker is not listening, a rejected single-tracker start leaves its
\* tracker not listening, and after a start call in which the tracker's OS
\* request succeeded the tracker is listening (so a retry is another start).
C6_FailedStartLeavesInactive ==
    /\ lastCall.op \in GsmStartOps =>
         /\ (lastCall.os.telSvc = "null" \/ lastCall.os.telReg \in {"security", "error"})
                => ~isActive
         /\ lastCall.os.telReg = "ok" => isActive
    /\ lastCall.op \in AudioStartOps =>
         /\ (lastCall.os.audSvc = "null"
                \/ lastCall.os.audReq \in {"failed", "delayed", "error"})
                => ~isAudioFocusActive
         /\ lastCall.os.audReq = "granted" => isAudioFocusActive
    /\ (lastCall.op = "startListener" /\ lastCall.settle = "reject") => ~isActive
    /\ (lastCall.op = "startAudioFocusListener" /\ lastCall.settle = "reject")
           => ~isAudioFocusActive

\* A rejected startAudioFocusListener was followed by one the OS granted.
C6_Witness ==
    /\ lastCall.prevOp = "startAudioFocusListener"
    /\ lastCall.prevSettle = "reject"
    /\ lastCall.op = "startAudioFocusListener"
    /\ lastCall.os.audReq = "granted"
    /\ lastCall.settle = "resolve"
    /\ isAudioFocusActive

\* C7 as stated: whichever start operation meets it, a missing telephony
\* service rejects with TELEPHONY_ERROR, a permission denial with
\* PERMISSION_ERROR, a missing audio service with AUDIO_ERROR and a focus
\* request that is not granted with AUDIO_FOCUS_ERROR.
C7_EveryStartNamesItsCause ==
    /\ lastCall.op \in GsmStartOps =>
         /\ lastCall.os.telSvc = "null" =>
              (lastCall.settle = "reject" /\ lastCall.code = "TELEPHONY_ERROR")
         /\ lastCall.os.telReg = "security" =>
              (lastCall.settle = "reject" /\ lastCall.code = "PERMISSION_ERROR")
    /\ lastCall.op \in AudioStartOps =>
         /\ lastCall.os.audSvc = "null" =>
              (lastCall.settle = "reject" /\ lastCall.code = "AUDIO_ERROR")
         /\ lastCall.os.audReq \in {"failed", "delayed"} =>
              (lastCall.settle = "reject" /\ lastCall.code = "AUDIO_FOCUS_ERROR")

\* C7 amended: the same for the single-tracker operations startListener and
\* startAudioFocusListener only; any other exception of theirs rejects with
\* START_ERROR.
C7_SingleStartNamesItsCause ==
    /\ lastCall.op = "startListener" =>
         /\ lastCall.os.telSvc = "null" =>
              (lastCall.settle = "reject" /\ lastCall.code = "TELEPHONY_ERROR")
         /\ lastCall.os.telReg = "security" =>
              (lastCall.settle = "reject" /\ lastCall.code = "PERMISSION_ERROR")
         /\ lastCall.os.telReg = "error" =>
              (lastCall.settle = "reject" /\ lastCall.code = "START_ERROR")
    /\ lastCall.op = "startAudioFocusListener" =>
         /\ lastCall.os.audSvc = "null" =>
              (lastCall.settle = "reject" /\ lastCall.code = "AUDIO_ERROR")
         /\ lastCall.os.audReq \in {"failed", "delayed"} =>
              (lastCall.settle = "reject" /\ lastCall.code = "AUDIO_FOCUS_ERROR")
         /\ lastCall.os.audReq = "error" =>
              (lastCall.settle = "reject" /\ lastCall.code = "START_ERROR")

\* startListener has just been refused by the OS with a permission denial.
C7_Witness ==
    /\ lastCall.op = "startListener"
    /\ lastCall.os.telReg = "security"
    /\ lastCall.code = "PERMISSION_ERROR"
    /\ ~isActive

\* C8: an OS notification publishes an event of a tracker's category, or
\* changes that tracker's stored state, only while the tracker's listening
\* flag is true.
C8_EventsOnlyWhileListening ==
    [][/\ Len(emitted') > Len(emitted) =>
            LET e == emitted'[Len(emitted')].params IN
            /\ e.type = "gsm" => isGsmListening
            /\ e.type = "audio_focus" => isAudioFocusListening
       /\ (~CallStep /\ currentGsmState' # currentGsmState) => isGsmListening
       /\ (~CallStep /\ <<currentAudioFocusState', hasAudioFocus'>>
                          # <<currentAudioFocusState, hasAudioFocus>>)
              => isAudioFocusListening
      ]_vars

\* C9: in every emitted audio-focus event isInterrupted is true exactly when
\* the state is FOCUS_LOSS or FOCUS_LOSS_TRANSIENT.
C9_InterruptedIffLoss ==
    \A e \in AudioFocusEvents :
        e.isInterrupted <=> e.state \in {"FOCUS_LOSS", "FOCUS_LOSS_TRANSIENT"}

\* While the tracker is listening, the event of a transient loss is waiting
\* for delivery, marked as an interruption.
C9_Witness ==
    /\ isAudioFocusActive
    /\ \E e \in AudioFocusEvents :
         e.state = "FOCUS_LOSS_TRANSIENT" /\ e.isInterrupted

\* C10: in every emitted audio-focus event hasAudioFocus is false for
\* FOCUS_LOSS and FOCUS_LOSS_TRANSIENT and true for every other state.
C10_HasFocusFunctionOfState ==
    \A e \in AudioFocusEvents :
        e.hasAudioFocus <=> e.state \notin {"FOCUS_LOSS", "FOCUS_LOSS_TRANSIENT"}

\* C11: in every emitted audio-focus event isInterrupted implies that
\* hasAudioFocus is false, and every FOCUS_LOSS_CAN_DUCK event has
\* hasAudioFocus true and isInterrupted false.
C11_InterruptedExcludesFocus ==
    \A e \in AudioFocusEvents :
        /\ e.isInterrupted => ~e.hasAudioFocus
        /\ e.state = "FOCUS_LOSS_CAN_DUCK"
              => (e.hasAudioFocus /\ ~e.isInterrupted)

\* C12: getCallState returns IDLE before the first OS call-state
\* notification, and afterwards the normalized state of the most recent
\* one alone: IDLE, RINGING, OFFHOOK for the three OS codes, UNKNOWN for
\* every other code.
C12_GetCallStateIsLatest ==
    getCallState =
      IF lastGsmNotification = <<>> THEN "IDLE"
      ELSE LET code == lastGsmNotification[1].state IN
           CASE code = CALL_STATE_IDLE -> "IDLE"
             [] code = CALL_STATE_RINGING -> "RINGING"
             [] code = CALL_STATE_OFFHOOK -> "OFFHOOK"
             [] OTHER -> "UNKNOWN"

\* The most recent notification carried a code that is none of the three,
\* and getCallState returns UNKNOWN.
C12_Witness ==
    /\ lastGsmNotification # <<>>
    /\ lastGsmNotification[1].state
          \notin {CALL_STATE_IDLE, CALL_STATE_RINGING, CALL_STATE_OFFHOOK}
    /\ getCallState = "UNKNOWN"

\* A step that emits a call-state event, and that event.
GsmPublishStep ==
    /\ Len(emitted') = Len(emitted) + 1
    /\ emitted'[Len(emitted')].name = GSM_EVENT_NAME
PublishedEvent == emitted'[Len(emitted')].params

\* A step that hands a call-state event to the JavaScript subscribers.
GsmDeliveryStep ==
    /\ emitted # <<>>
    /\ emitted' = Tail(emitted)
    /\ emitted[1].name = GSM_EVENT_NAME

\* C13: the stored call state is updated to the notification's mapped
\* state before the notification's event is published: when the event is
\* emitted getCallState returns the event's state, and when the event
\* reaches the subscribers getCallState returns that state or the state of
\* the latest notification, never an older one.
C13_StoredBeforePublished ==
    [][ /\ GsmPublishStep => getCallState' = PublishedEvent.state
        /\ GsmDeliveryStep =>
              \/ getCallState = emitted[1].params.state
              \/ /\ lastGsmNotification # <<>>
                 /\ getCallState = GsmStateString(lastGsmNotification[1].state)
      ]_vars

\* On the main executor a handler has stored RINGING and is about to publish
\* the event, while an earlier state was IDLE and nothing is in flight.
C13_Witness ==
    /\ gsmHandler # <<>>
    /\ gsmHandler[1].state = CALL_STATE_RINGING
    /\ getCallState = "RINGING"
    /\ emitted = <<>>
    /\ hasActiveReactInstance

\* C14: a getAudioFocusState interleaved with the focus-change callback (or
\* taken after an interleaved stopAudioFocusListener) never returns a
\* snapshot whose state and hasAudioFocus come from different
\* notifications: FOCUS_GAINED and FOCUS_LOSS_CAN_DUCK go with
\* hasAudioFocus true; FOCUS_LOSS, FOCUS_LOSS_TRANSIENT and NONE with
\* hasAudioFocus false.
C14_SnapshotNeverTorn ==
    LET snapshot == getAudioFocusState IN
    /\ snapshot.state \in {"FOCUS_GAINED", "FOCUS_LOSS_CAN_DUCK"}
          => snapshot.hasAudioFocus
    /\ snapshot.state \in {"FOCUS_LOSS", "FOCUS_LOSS_TRANSIENT", "NONE"}
          => ~snapshot.hasAudioFocus

\* A stopAudioFocusListener that ran in the middle of a callback has
\* resolved, the callback has finished, and the snapshot says not listening
\* with a state other than NONE.
C14_StopOvertaken ==
    /\ lastCall.op = "stopAudioFocusListener"
    /\ lastCall.settle = "resolve"
    /\ focusRegs = {}
    /\ audioHandler = <<>>
    /\ ~getAudioFocusState.isListening
    /\ getAudioFocusState.state # "NONE"

\* C15: every published call-state event carries the phone number the OS
\* supplied with its notification, the empty string standing for a missing
\* number and never null, and getCallState then returns the event's state.
C15_EventCarriesOsNumber ==
    [][ GsmPublishStep =>
          LET supplied == lastGsmNotification'[1].phoneNumber IN
          /\ PublishedEvent.phoneNumber
                = (IF supplied = NullString THEN "" ELSE supplied)
          /\ PublishedEvent.phoneNumber # NullString
          /\ PublishedEvent.type = "gsm"
          /\ getCallState' = PublishedEvent.state
      ]_vars

\* C16: the two registration strategies, given the same start / stop calls,
\* the same OS answers and the same call-state changes (code and phone
\* number), have the same listening flag and the same stored call state,
\* settle every promise the same way and publish the same events.
C16_StrategiesIdentical ==
    /\ twin.s.isGsmListening = isGsmListening
    /\ twin.s.currentGsmState = currentGsmState
    /\ lastCall.op # "none"
          => (twin.settle = lastCall.settle /\ twin.code = lastCall.code)
    /\ twin.emitted = emitted

\* A step that emits an audio-focus event (its event is PublishedEvent).
AudioPublishStep ==
    /\ Len(emitted') = Len(emitted) + 1
    /\ emitted'[Len(emitted')].name = AUDIO_FOCUS_EVENT_NAME

\* C17: a startAudioFocusListener made while not listening, whose focus
\* request is granted, leaves the snapshot {FOCUS_GAINED, hasAudioFocus
\* true, isListening true}; a transient-loss notification publishes
\* {FOCUS_LOSS_TRANSIENT, isInterrupted true, hasAudioFocus false,
\* audio_focus} and leaves the snapshot at that state with hasAudioFocus
\* false and isListening as it was.
C17_GrantThenTransientLoss ==
    [][ /\ ( /\ CallStep
             /\ lastCall'.op = "startAudioFocusListener"
             /\ ~isAudioFocusListening
             /\ lastCall'.os.audReq = "granted" )
          => getAudioFocusState' =
               [state |-> "FOCUS_GAINED", hasAudioFocus |-> TRUE,
                isListening |-> TRUE]
        /\ ( /\ AudioPublishStep
             /\ lastFocusChange' = <<AUDIOFOCUS_LOSS_TRANSIENT>> )
          => /\ PublishedEvent =
                  [state |-> "FOCUS_LOSS_TRANSIENT", isInterrupted |-> TRUE,
                   hasAudioFocus |-> FALSE, type |-> "audio_focus"]
             /\ getAudioFocusState' =
                  [state |-> "FOCUS_LOSS_TRANSIENT", hasAudioFocus |-> FALSE,
                   isListening |-> isAudioFocusListening]
      ]_vars

\* After a granted start the OS has reported a transient loss: the tracker
\* is still listening and the event of the loss is waiting for delivery.
C17_Witness ==
    /\ lastCall.op = "startAudioFocusListener"
    /\ lastCall.os.audReq = "granted"
    /\ lastFocusChange = <<AUDIOFOCUS_LOSS_TRANSIENT>>
    /\ getAudioFocusState =
         [state |-> "FOCUS_LOSS_TRANSIENT", hasAudioFocus |-> FALSE,
          isListening |-> TRUE]
    /\ \E e \in AudioFocusEvents : e.state = "FOCUS_LOSS_TRANSIENT"

\* C18: stopAudioFocusListener, from every reachable state, leaves the
\* snapshot {NONE, hasAudioFocus false, isListening false} and no
\* audio-focus request of the module held by the OS.
C18_StopAbandonsEverything ==
    [][ (CallStep /\ lastCall'.op = "stopAudioFocusListener")
          => /\ getAudioFocusState' =
                  [state |-> "NONE", hasAudioFocus |-> FALSE,
                   isListening |-> FALSE]
             /\ focusRegs' = {}
      ]_vars

\* A step that hands the oldest emitted event to the JavaScript subscribers.
DeliveryStep == emitted # <<>> /\ emitted' = Tail(emitted)

\* C20: an event delivered after removeAll() invokes none of the callbacks
\* registered before it, whatever its category; after removeAllListeners /
\* removeAllAudioFocusListeners the same holds for that one category, and
\* the other category's subscriptions go on being invoked.  So, for either
\* event name, the callbacks an event would invoke are exactly the
\* subscriptions of that name which no remove() and no removeAll-type call
\* for their category has covered, and a delivery invokes exactly those.
C20_RemoveAllSilencesCategory ==
    /\ [](\A name \in {GSM_EVENT_NAME, AUDIO_FOCUS_EVENT_NAME} :
            listeners[name] =
              {i \in 1..Len(subscriptions) :
                 subscriptions[i] = name /\ i \notin unsubscribed})
    /\ [][ DeliveryStep =>
             lastDelivery'[1].invoked =
               {i \in 1..Len(subscriptions) :
                  subscriptions[i] = emitted[1].name /\ i \notin unsubscribed}
         ]_vars

\* Two subscriptions, one per category, had been made and both removed when
\* a call-state event was delivered: it invoked nobody.
C20_Witness ==
    /\ Len(subscriptions) = 2
    /\ subscriptions[1] # subscriptions[2]
    /\ unsubscribed = {1, 2}
    /\ lastDelivery # <<>>
    /\ lastDelivery[1].name = GSM_EVENT_NAME
    /\ lastDelivery[1].made = 2
    /\ lastDelivery[1].invoked = {}

\* C22: onHostDestroy force-clears the registry of subscribers: after it no
\* subscription is registered under either event name, so that an event
\* delivered later invokes none of the callbacks registered before it.
C22_HostDestroyClearsRelay ==
    [][ (CallStep /\ lastCall'.op = "onHostDestroy")
          => \A name \in {GSM_EVENT_NAME, AUDIO_FOCUS_EVENT_NAME} :
               listeners'[name] = {}
      ]_vars
\* A step of the call tracker: one of its two operations, or its handler
\* entered, left or publishing.
CallTrackerStep ==
    \/ CallStep /\ lastCall'.op \in {"startListener", "stopListener"}
    \/ gsmHandler' # gsmHandler
    \/ lastGsmNotification' # lastGsmNotification
    \/ GsmPublishStep

\* A step of the audio-focus tracker: one of its two operations, or its
\* handler entered or left.
AudioTrackerStep ==
    \/ CallStep /\ lastCall'.op \in {"startAudioFocusListener",
                                      "stopAudioFocusListener"}
    \/ audioHandler' # audioHandler

\* C23: the trackers share no mutable state.  A step of the call tracker
\* (startListener, stopListener, a call-state notification) leaves every
\* field of the audio-focus tracker and its OS registrations as they were;
\* a step of the audio-focus tracker (startAudioFocusListener,
\* stopAudioFocusListener, a focus-change notification) leaves every field
\* of the call tracker and its OS registrations as they were, also when the
\* step falls between two statements of the other tracker's handler.
C23_TrackersShareNothing ==
    [][ /\ CallTrackerStep => audioVars' = audioVars
        /\ AudioTrackerStep => gsmVars' = gsmVars
      ]_vars

\* Both handlers are in progress at once while both trackers listen: the
\* call handler has stored RINGING, the focus handler has cleared
\* hasAudioFocus and has not yet stored the state of the loss.
C23_Witness ==
    /\ gsmHandler # <<>>
    /\ audioHandler # <<>>
    /\ isGsmListening /\ isAudioFocusListening
    /\ currentGsmState = "RINGING"
    /\ ~hasAudioFocus
    /\ currentAudioFocusState = "FOCUS_GAINED"

\* C24: a start call on a tracker that is already listening is a no-op for
\* that tracker.  startAudioFocusListener or startAllListeners made while
\* the audio-focus tracker is listening leaves its state, hasAudioFocus and
\* every other field of it as they were (a tracker in FOCUS_LOSS is not
\* reset to FOCUS_GAINED), makes no audio-focus request and publishes no
\* event; startListener or startAllListeners made while the call tracker is
\* listening leaves the stored call state and every other field of it as
\* they were, makes no registration and publishes no event.
C24_StartWhileListeningIsNoOp ==
    [][ CallStep =>
          /\ (lastCall'.op \in AudioStartOps /\ isAudioFocusListening)
                => /\ getAudioFocusState' = getAudioFocusState
                   /\ audioVars' = audioVars
                   /\ lastCall'.os.audSvc \in {"already", "na"}
                   /\ lastCall'.os.audReq = "na"
                   /\ lastCall'.os.audAbandon = "na"
                   /\ emitted' = emitted
          /\ (lastCall'.op \in GsmStartOps /\ isGsmListening)
                => /\ getCallState' = getCallState
                   /\ gsmVars' = gsmVars
                   /\ lastCall'.os.telSvc = "already"
                   /\ lastCall'.os.telReg = "na"
                   /\ lastCall'.os.telUnreg = "na"
                   /\ emitted' = emitted
      ]_vars

\* After a permanent loss of focus and an OFFHOOK notification, a
\* startAllListeners found both trackers listening and resolved: the
\* snapshot is still {FOCUS_LOSS, false, true} and the call state OFFHOOK.
C24_Witness ==
    /\ lastCall.op = "startAllListeners"
    /\ lastCall.settle = "resolve"
    /\ lastCall.os.audSvc = "already"
    /\ lastCall.os.telSvc = "already"
    /\ lastFocusChange = <<AUDIOFOCUS_LOSS>>
    /\ getAudioFocusState =
         [state |-> "FOCUS_LOSS", hasAudioFocus |-> FALSE, isListening |-> TRUE]
    /\ getCallState = "OFFHOOK"

\* C25: onHostDestroy, from every reachable state, leaves isActive and
\* isAudioFocusActive false, the audio snapshot {NONE, false, false} and no
\* registration of the module held by the OS; a start made right after it
\* whose OS request is granted resolves and leaves its tracker listening.
C25_HostDestroyTearsDown ==
    [][ CallStep =>
          /\ lastCall'.op = "onHostDestroy"
                => /\ ~isActive'
                   /\ ~isAudioFocusActive'
                   /\ getAudioFocusState' =
                        [state |-> "NONE", hasAudioFocus |-> FALSE,
                         isListening |-> FALSE]
                   /\ telephonyRegs' = {}
                   /\ focusRegs' = {}
          /\ (lastCall.op = "onHostDestroy" /\ lastCall'.op = "startListener"
                 /\ lastCall'.os.telReg = "ok")
                => (lastCall'.settle = "resolve" /\ isActive')
          /\ (lastCall.op = "onHostDestroy"
                 /\ lastCall'.op = "startAudioFocusListener"
                 /\ lastCall'.os.audReq = "granted")
                => (lastCall'.settle = "resolve" /\ isAudioFocusActive')
      ]_vars

\* C26: in every reachable state each tracker has exactly one live OS
\* registration while its listening flag is true and none while it is
\* false.
C26_OneRegistrationIffListening ==
    /\ Cardinality(telephonyRegs) = (IF isGsmListening THEN 1 ELSE 0)
    /\ Cardinality(focusRegs) = (IF isAudioFocusListening THEN 1 ELSE 0)

\* A tracker whose listening flag is true has a live registration.
C26_ListeningHasRegistration ==
    /\ isGsmListening => telephonyRegs # {}
    /\ isAudioFocusListening => focusRegs # {}

\* C27: a rejected startListener or startAudioFocusListener leaves its
\* tracker as it was before the call: the listening flag, the stored state
\* and the retained callback / request handles are unchanged.  So a stop
\* made right after a rejected start, for a callback or request the OS
\* never took, makes no unregister / abandon call.
C27_RejectedStartChangesNothing ==
    [][ CallStep =>
          /\ (lastCall'.op = "startListener" /\ lastCall'.settle = "reject")
                => <<isGsmListening, currentGsmState, phoneStateListener,
                     callStateCallback>>'
                   = <<isGsmListening, currentGsmState, phoneStateListener,
                       callStateCallback>>
          /\ (lastCall'.op = "startAudioFocusListener"
                 /\ lastCall'.settle = "reject")
                => <<isAudioFocusListening, currentAudioFocusState,
                     hasAudioFocus, audioFocusRequest,
                     audioFocusChangeListener>>'
                   = <<isAudioFocusListening, currentAudioFocusState,
                       hasAudioFocus, audioFocusRequest,
                       audioFocusChangeListener>>
          /\ (lastCall.op = "startListener" /\ lastCall.settle = "reject"
                 /\ lastCall'.op = "stopListener")
                => lastCall'.os.telUnreg = "na"
          /\ (lastCall.op = "startAudioFocusListener"
                 /\ lastCall.settle = "reject"
                 /\ lastCall.os.audReq # "delayed"
                 /\ lastCall'.op = "stopAudioFocusListener")
                => lastCall'.os.audAbandon = "na"
      ]_vars

\* C28: a startAllListeners that rejects leaves both listening flags as
\* they were before the call; one that resolves reports gsmListening and
\* audioFocusListening equal to isActive and isAudioFocusActive as they
\* are right after it.
C28_StartAllRejectKeepsFlags ==
    [][ (CallStep /\ lastCall'.op = "startAllListeners") =>
          /\ lastCall'.settle = "reject"
                => /\ isGsmListening' = isGsmListening
                   /\ isAudioFocusListening' = isAudioFocusListening
          /\ lastCall'.settle = "resolve"
                => /\ lastCall'.gsmListening = isActive'
                   /\ lastCall'.audioFocusListening = isAudioFocusActive'
      ]_vars

\* C29: in every reachable state of the audio-focus tracker, isListening
\* false implies state NONE and hasAudioFocus false, and isListening true
\* implies a state other than NONE; so a focus request that was not granted
\* at once never changes the snapshot while isListening is false.
C29_SnapshotFollowsListening ==
    LET snapshot == getAudioFocusState IN
    /\ ~snapshot.isListening
          => (snapshot.state = "NONE" /\ ~snapshot.hasAudioFocus)
    /\ snapshot.isListening => snapshot.state # "NONE"

\* A step in which the OS delivers a call-state notification to the handler,
\* and one in which it delivers a focus change.
GsmNotificationStep ==
    /\ ~CallStep
    /\ \/ lastGsmNotification' # lastGsmNotification
       \/ currentGsmState' # currentGsmState
       \/ GsmPublishStep
AudioNotificationStep ==
    /\ ~CallStep
    /\ \/ lastFocusChange' # lastFocusChange
       \/ currentAudioFocusState' # currentAudioFocusState
       \/ focusDelayed' # focusDelayed
       \/ AudioPublishStep

C31_StopKeepsCallState ==
    [][ CallStep =>
          /\ lastCall'.op \in {"stopListener", "stopAllListeners",
                                "onHostDestroy", "startListener"}
                => /\ getCallState' = getCallState
                   /\ lastGsmNotification # <<>>
                         => getCallState' =
                              GsmStateString(lastGsmNotification[1].state)
          /\ ( /\ lastCall'.op \in {"stopAllListeners", "onHostDestroy"}
               /\ lastCall'.settle \in {"resolve", "return"} )
                => getAudioFocusState'.state = "NONE"
      ]_vars

\* With the call state at OFFHOOK and the audio-focus tracker started, a
\* stopAllListeners has resolved: neither tracker is listening, the
\* audio-focus state is NONE and getCallState still returns OFFHOOK.
C31_Witness ==
    /\ lastCall.prevOp = "startAudioFocusListener"
    /\ lastCall.prevSettle = "resolve"
    /\ lastCall.op = "stopAllListeners"
    /\ lastCall.settle = "resolve"
    /\ lastCall.os.telUnreg = "ok"
    /\ ~isActive /\ ~isAudioFocusActive
    /\ getAudioFocusState.state = "NONE"
    /\ getCallState = "OFFHOOK"

PromiseOps ==
    {"startListener", "stopListener", "isActive", "getCallState",
     "startAudioFocusListener", "stopAudioFocusListener",
     "isAudioFocusActive", "getAudioFocusState", "startAllListeners",
     "stopAllListeners"}

CountOf(list, name) ==
    Cardinality({i \in 1..Len(list) : list[i].attrs /\ list[i].name = name})

IsPrefix(a, b) ==
    /\ Len(a) <= Len(b)
    /\ \A i \in 1..Len(a) : b[i] = a[i]

\* What one plugin, run at least once, has done to the uses-permission list:
\* READ_PHONE_STATE is in it, the entries of the input come first and in
\* their order, no permission that was there was added again, and a second
\* run left the list of the first.
PluginAdditiveIdempotent(run) ==
    run.runs >= 1
        => /\ run.manifest.present
           /\ HasPermission(run.manifest.list, READ_PHONE_STATE)
           /\ IsPrefix(manifestInput.list, run.manifest.list)
           /\ \A n \in PermissionNames :
                 CountOf(manifestInput.list, n) >= 1
                     => CountOf(run.manifest.list, n)
                            = CountOf(manifestInput.list, n)
           /\ CountOf(run.manifest.list, READ_PHONE_STATE)
                 = (IF CountOf(manifestInput.list, READ_PHONE_STATE) = 0
                    THEN 1 ELSE CountOf(manifestInput.list, READ_PHONE_STATE))
           /\ run.manifest = run.first

C33_EachPluginAdditiveIdempotent ==
    /\ PluginAdditiveIdempotent(packaged)
    /\ PluginAdditiveIdempotent(typescript)

C33_PluginsAgree ==
    (packaged.runs >= 1 /\ typescript.runs >= 1)
        => packaged.manifest.list = typescript.manifest.list

\* C33: each Expo config plugin is additive and idempotent on the
\* uses-permission list (READ_PHONE_STATE is in the list afterwards, the
\* entries of the input are kept in their order, a permission already there
\* is not added again, a second run changes nothing), and app.plugin.js and
\* src/expo-plugin.ts leave the same list for the same input manifest.
C33_PluginIdempotentAdditiveSame ==
    /\ PluginAdditiveIdempotent(packaged)
    /\ PluginAdditiveIdempotent(typescript)
    /\ (packaged.runs >= 1 /\ typescript.runs >= 1)
          => packaged.manifest.list = typescript.manifest.list

\* Both plugins ran twice on a manifest that already asked for
\* READ_PHONE_STATE.
C33_Witness ==
    /\ HasPermission(manifestInput.list, READ_PHONE_STATE)
    /\ packaged.runs = 2
    /\ typescript.runs = 2
====
